---- MODULE Spec2Model ----
(***************************************************************************)
(* Model of the Ghost -> Cloudflare cache purge worker (src/src/index.js). *)
(*                                                                         *)
(* Strings are sequences of tokens (TLA+ strings): concatenation is \o and *)
(* two strings are equal iff their token sequences are equal.  A zone ID   *)
(* is a sequence of one-character tokens, so that the regular expression   *)
(* of validateZoneID is evaluated character by character.                  *)
(***************************************************************************)
EXTENDS Integers, Sequences, FiniteSets

\* ------------------------------------------------------------ history
\* the last purge call of an earlier invocation; the program keeps no such
\* state, it is recorded by InvocationEndsRecorded only
VARIABLE prev

\* ------------------------------------------------------------ bounds
\* zone IDs of length ZoneLen - MaxPad .. ZoneLen + MaxPad are tried
MaxPad == 1
\* requests carry up to MaxExtra path segments after /{zoneID}/{action}
MaxExtra == 1

\* ------------------------------------------------------------ constants
HTTP_OK == 200
HTTP_BAD_REQUEST == 400
HTTP_METHOD_NOT_ALLOWED == 405
HTTP_INTERNAL_ERROR == 500

ERROR_METHOD_NOT_ALLOWED == "Method not allowed. Only POST requests are accepted."
ERROR_INVALID_CONTENT_TYPE == "Invalid content type. Only application/json is accepted."
ERROR_MISSING_ZONE_ID == "Missing zone ID in URL path."
ERROR_MISSING_ACTION == "Missing action in URL path."
ERROR_INVALID_ACTION == "Invalid action. Allowed actions: postPublished, postUpdated."
ERROR_MISSING_API_TOKEN == "Missing Cloudflare API token in environment."
ERROR_INVALID_WEBHOOK == "Invalid webhook payload structure."
ERROR_INVALID_ZONE_FORMAT == "Invalid zone ID format."

ACTION_POST_PUBLISHED == <<"postPublished">>
ACTION_POST_UPDATED == <<"postUpdated">>
VALID_ACTIONS == <<ACTION_POST_PUBLISHED, ACTION_POST_UPDATED>>

\* the quantifier {32} of the zone ID pattern
ZoneLen == 32

\* ------------------------------------------------------------ responses
\* new Response(body, { status })
Response(body, status) == [status |-> status, body |-> body]
\* the null a validator returns when its check passes; also "no response yet"
Null == [status |-> 0, body |-> <<>>]

\* ------------------------------------------------------------ strings
Range(s) == {s[i] : i \in 1..Len(s)}

\* Array.prototype.filter(Boolean) on the result of split("/"): drops the
\* empty strings
RECURSIVE FilterBoolean(_)
FilterBoolean(segs) ==
  IF segs = <<>> THEN <<>>
  ELSE IF Head(segs) = <<>> THEN FilterBoolean(Tail(segs))
       ELSE <<Head(segs)>> \o FilterBoolean(Tail(segs))

\* const [zoneID, action] = ...: a missing element destructures to
\* undefined, which is falsy like the empty string; both are <<>> here
At(segs, i) == IF i <= Len(segs) THEN segs[i] ELSE <<>>

\* String.prototype.includes on a token sequence
Includes(s, tok) == tok \in Range(s)

\* ------------------------------------------------------------ zone ID pattern
LowerHex == <<"0","1","2","3","4","5","6","7","8","9","a","b","c","d","e","f">>
UpperOf == [c \in {"a","b","c","d","e","f","g"} |->
              CASE c = "a" -> "A" [] c = "b" -> "B" [] c = "c" -> "C"
                [] c = "d" -> "D" [] c = "e" -> "E" [] c = "f" -> "F"
                [] c = "g" -> "G"]
\* the canonicalisation the i flag applies to both the pattern and the input
Canonicalize(c) == IF c \in DOMAIN UpperOf THEN UpperOf[c] ELSE c
\* the character class [a-f0-9]
ZoneClass == Range(LowerHex)
ZoneClassCanonical == {Canonicalize(k) : k \in ZoneClass}
ClassMatches(c, ignoreCase) ==
  IF ignoreCase THEN Canonicalize(c) \in ZoneClassCanonical
  ELSE c \in ZoneClass

\* matching [a-f0-9]{n} from position i of s: the position after the match,
\* or 0 when there is none
RECURSIVE MatchClassTimes(_, _, _, _)
MatchClassTimes(s, i, n, ignoreCase) ==
  IF n = 0 THEN i
  ELSE IF i > Len(s) THEN 0
  ELSE IF ClassMatches(s[i], ignoreCase)
       THEN MatchClassTimes(s, i + 1, n - 1, ignoreCase)
       ELSE 0

\* /^[a-f0-9]{32}$/i.test(zoneID); without the m flag $ is the end of input
ZonePatternTestNoCase(zoneID) == MatchClassTimes(zoneID, 1, ZoneLen, FALSE) = Len(zoneID) + 1
ZonePatternTest(zoneID) == MatchClassTimes(zoneID, 1, ZoneLen, TRUE) = Len(zoneID) + 1

\* ------------------------------------------------------------ URL (WHATWG)
\* the tokens a URL string is made of
SchemeTokens == {"https", "HTTPS", "http", "app"}
SpecialSchemes == {"https", "http"}
PortTokens == {"443", "80", "8080"}
PathTokens == {"/", "/my-post/", "/blog/../my-post/"}
QueryTokens == {"?x=1"}
HostTokens == {"example.com", "Example.COM", "blog.example.org"}

\* ASCII lower-casing of a scheme or of a special scheme's host
ToLowerCase(tok) ==
  CASE tok = "HTTPS" -> "https"
    [] tok = "Example.COM" -> "example.com"
    [] OTHER -> tok
DefaultPort(scheme) ==
  CASE scheme = "https" -> "443"
    [] scheme = "http" -> "80"
    [] OTHER -> ""
\* removal of the dot segments of a path
RemoveDotSegments(tok) == IF tok = "/blog/../my-post/" THEN "/my-post/" ELSE tok

URLFailure ==
  [ok |-> FALSE, scheme |-> "", hasAuthority |-> FALSE, host |-> "",
   port |-> "", path |-> <<>>, query |-> <<>>]

\* new URL(input) without a base: the parsed record, ok = FALSE where the
\* constructor throws a TypeError
URLParse(input) ==
  IF Len(input) < 2 \/ input[1] \notin SchemeTokens \/ input[2] # ":"
  THEN URLFailure   \* no scheme: a relative reference, and there is no base
  ELSE
    LET scheme == ToLowerCase(input[1])
        special == scheme \in SpecialSchemes
        slashes == Len(input) >= 3 /\ input[3] = "//"
        \* a special scheme has an authority with or without the slashes
        hasAuthority == special \/ slashes
        h == IF slashes THEN 4 ELSE 3
        hasHost == hasAuthority /\ h <= Len(input) /\ input[h] \in HostTokens
        rawHost == IF hasHost THEN input[h] ELSE ""
        host == IF special THEN ToLowerCase(rawHost) ELSE rawHost
        p == IF hasHost THEN h + 1 ELSE h
        hasPort == hasHost /\ p + 1 <= Len(input) /\ input[p] = ":"
                     /\ input[p + 1] \in PortTokens
        rawPort == IF hasPort THEN input[p + 1] ELSE ""
        port == IF rawPort = DefaultPort(scheme) THEN "" ELSE rawPort
        q == IF hasPort THEN p + 2 ELSE p
        hasPath == q <= Len(input) /\ input[q] \in PathTokens
        path == IF hasPath THEN <<RemoveDotSegments(input[q])>>
                ELSE IF special THEN <<"/">> ELSE <<>>
        r == IF hasPath THEN q + 1 ELSE q
        hasQuery == r <= Len(input) /\ input[r] \in QueryTokens
        query == IF hasQuery THEN <<input[r]>> ELSE <<>>
        end == IF hasQuery THEN r + 1 ELSE r
    IN  IF (special /\ ~hasHost) \/ end # Len(input) + 1
        THEN URLFailure   \* a special scheme needs a host; nothing else may follow
        ELSE [ok |-> TRUE, scheme |-> scheme, hasAuthority |-> hasAuthority,
              host |-> host, port |-> port, path |-> path, query |-> query]

\* the protocol getter: the scheme followed by ":"
URLProtocol(u) == <<u.scheme, ":">>
\* the host getter: the host, followed by ":" and the port when there is one
URLHost(u) ==
  IF u.host = "" THEN <<>>
  ELSE IF u.port = "" THEN <<u.host>> ELSE <<u.host, ":", u.port>>
\* the href getter: the serialisation of the parsed URL
URLHref(u) ==
  URLProtocol(u) \o (IF u.hasAuthority THEN <<"//">> \o URLHost(u) ELSE <<>>)
    \o u.path \o u.query

\* ------------------------------------------------------------ JSON values
Undefined == [t |-> "undefined"]
JNull == [t |-> "null"]
JString(s) == [t |-> "string", s |-> s]
JNumber(n) == [t |-> "number", n |-> n]
JBoolean(b) == [t |-> "boolean", b |-> b]
JObject(f) == [t |-> "object", f |-> f]
\* what request.json() settles with for a body that is not JSON
InvalidJSON == [t |-> "invalid"]

\* v?.key: undefined on null and undefined, and on a value without the key
Chain(v, key) ==
  IF v.t = "object" /\ key \in DOMAIN v.f THEN v.f[key] ELSE Undefined
\* ToBoolean
Truthy(v) ==
  CASE v.t \in {"undefined", "null"} -> FALSE
    [] v.t = "string" -> v.s # <<>>
    [] v.t = "number" -> v.n # 0
    [] v.t = "boolean" -> v.b
    [] OTHER -> TRUE
\* the string conversion the URL constructor applies to its argument
StringOf(v) ==
  CASE v.t = "string" -> v.s
    [] v.t = "number" -> IF v.n = 0 THEN <<"0">> ELSE <<"42">>
    [] v.t = "boolean" -> IF v.b THEN <<"true">> ELSE <<"false">>
    [] v.t = "object" -> <<"[object Object]">>
    [] OTHER -> <<v.t>>

\* ------------------------------------------------------------ console
\* a number interpolated into a template literal: its decimal digits
RECURSIVE Decimal(_)
Decimal(n) ==
  IF n < 10 THEN <<LowerHex[n + 1]>>
  ELSE Decimal(n \div 10) \o <<LowerHex[(n % 10) + 1]>>

\* Array.prototype.join(', ') on a list of strings
RECURSIVE Join(_)
Join(urls) ==
  IF urls = <<>> THEN <<>>
  ELSE IF Len(urls) = 1 THEN urls[1]
  ELSE urls[1] \o <<", ">> \o Join(Tail(urls))

ConsoleError(text) == [level |-> "error", text |-> text]
ConsoleLog(text) == [level |-> "log", text |-> text]

\* ------------------------------------------------------------ validators
validateRequest_ContentTypeFirst(request) ==
  IF ~Includes(request.contentType, "application/json")
  THEN Response(<<ERROR_INVALID_CONTENT_TYPE>>, HTTP_BAD_REQUEST)
  ELSE IF request.method # "POST"
  THEN Response(<<ERROR_METHOD_NOT_ALLOWED>>, HTTP_METHOD_NOT_ALLOWED)
  ELSE Null

\* request.contentType is headers.get("content-type") || "": an absent
\* header and an empty one are both <<>>
validateRequest(request) ==
  IF request.method # "POST"
  THEN Response(<<ERROR_METHOD_NOT_ALLOWED>>, HTTP_METHOD_NOT_ALLOWED)
  ELSE IF ~Includes(request.contentType, "application/json")
  THEN Response(<<ERROR_INVALID_CONTENT_TYPE>>, HTTP_BAD_REQUEST)
  ELSE Null

validateZoneID_CaseSensitive(zoneID) ==
  IF zoneID = <<>>
  THEN Response(<<ERROR_MISSING_ZONE_ID>>, HTTP_BAD_REQUEST)
  ELSE IF ~ZonePatternTestNoCase(zoneID)
  THEN Response(<<ERROR_INVALID_ZONE_FORMAT>>, HTTP_BAD_REQUEST)
  ELSE Null

validateZoneID(zoneID) ==
  IF zoneID = <<>>
  THEN Response(<<ERROR_MISSING_ZONE_ID>>, HTTP_BAD_REQUEST)
  ELSE IF ~ZonePatternTest(zoneID)
  THEN Response(<<ERROR_INVALID_ZONE_FORMAT>>, HTTP_BAD_REQUEST)
  ELSE Null

validateAction(action) ==
  IF action = <<>>
  THEN Response(<<ERROR_MISSING_ACTION>>, HTTP_BAD_REQUEST)
  ELSE IF action \notin Range(VALID_ACTIONS)
  THEN Response(<<ERROR_INVALID_ACTION>>, HTTP_BAD_REQUEST)
  ELSE Null

validateApiToken(apiToken) ==
  IF apiToken = <<>>
  THEN Response(<<ERROR_MISSING_API_TOKEN>>, HTTP_INTERNAL_ERROR)
  ELSE Null
\* what validateApiToken writes to the console
validateApiTokenConsole(apiToken) ==
  IF apiToken = <<>>
  THEN <<ConsoleError(<<"Missing CF_API_TOKEN in environment variables">>)>>
  ELSE <<>>

\* body?.post?.current?.url
PostCurrentUrl(body) == Chain(Chain(Chain(body, "post"), "current"), "url")

validateWebhookBody(body) ==
  IF ~Truthy(PostCurrentUrl(body))
  THEN Response(<<ERROR_INVALID_WEBHOOK>>, HTTP_BAD_REQUEST)
  ELSE Null
\* what validateWebhookBody writes to the console
validateWebhookBodyConsole(body) ==
  IF ~Truthy(PostCurrentUrl(body))
  THEN <<ConsoleError(<<"Invalid webhook payload: missing post.current.url">>)>>
  ELSE <<>>

\* ------------------------------------------------------------ purge planner
CommonUrls(rootURL) ==
  << rootURL \o <<"/sitemap.xml">>,
     rootURL \o <<"/sitemap-posts.xml">>,
     rootURL \o <<"/sitemap-pages.xml">>,
     rootURL \o <<"/sitemap-tags.xml">>,
     rootURL \o <<"/sitemap-news/">>,
     rootURL \o <<"/rss/">> >>

getUrlsToPurge_HomepageAlways(action, rootURL, postURL) ==
  Append(CommonUrls(rootURL), rootURL)

\* the urls array hoisted to module scope: it keeps what earlier
\* invocations pushed
getUrlsToPurge_SharedArray(action, rootURL, postURL) ==
  prev.files \o
    (IF action = ACTION_POST_PUBLISHED THEN Append(CommonUrls(rootURL), rootURL)
     ELSE IF action = ACTION_POST_UPDATED THEN Append(CommonUrls(rootURL), postURL)
     ELSE CommonUrls(rootURL))

getUrlsToPurge(action, rootURL, postURL) ==
  IF action = ACTION_POST_PUBLISHED THEN Append(CommonUrls(rootURL), rootURL)
  ELSE IF action = ACTION_POST_UPDATED THEN Append(CommonUrls(rootURL), postURL)
  ELSE CommonUrls(rootURL)

\* ------------------------------------------------------------ dispatcher
\* the call purgeURL hands to fetch: the endpoint and the requestInit
purgeURL_SwappedArguments(urlToPurge, zoneID, apiToken) ==
  [method |-> "POST",
   url |-> <<"https://api.cloudflare.com/client/v4/zones/">> \o apiToken
             \o <<"/purge_cache">>,
   contentType |-> <<"application/json">>,
   authorization |-> <<"Bearer ">> \o zoneID,
   files |-> urlToPurge]

purgeURL(urlToPurge, zoneID, apiToken) ==
  [method |-> "POST",
   url |-> <<"https://api.cloudflare.com/client/v4/zones/">> \o zoneID
             \o <<"/purge_cache">>,
   contentType |-> <<"application/json">>,
   authorization |-> <<"Bearer ">> \o apiToken,
   files |-> urlToPurge]

\* Response.ok
Ok(response) == response.status >= 200 /\ response.status <= 299

handlePurgeFailure_Translated(response, zoneID, urls) ==
  Response(<<"Cache purge failed: ", response.statusText>>, HTTP_INTERNAL_ERROR)

handlePurgeFailure(response, zoneID, urls) ==
  Response(<<"Cache purge failed: ", response.statusText>>, response.status)
\* what handlePurgeFailure writes to the console, errorText being the
\* provider's body
handlePurgeFailureConsole(response, zoneID, urls, errorText) ==
  <<ConsoleError(<<"Purge failed: ">> \o Decimal(response.status)
                   \o <<" ", response.statusText, " - Zone: ">> \o zoneID \o <<" - URLs: ">> \o Join(urls)
                   \o <<" - Error: ", errorText>>)>>

handlePurgeSuccess(zoneID, urls) == Response(<<"OK">>, HTTP_OK)
\* what handlePurgeSuccess writes to the console
handlePurgeSuccessConsole(zoneID, urls) ==
  <<ConsoleLog(<<"Successfully purged: Zone: ">> \o zoneID \o <<" - URLs: ">>
                 \o Join(urls))>>

\* ------------------------------------------------------------ inputs
Methods == {"POST", "GET"}
ContentTypes ==
  { <<>>, <<"application/json">>, <<"application/json", "; charset=utf-8">>,
    <<"text/plain">> }

ZoneOf(n, chars) == [i \in 1..n |-> chars[((i - 1) % Len(chars)) + 1]]
UpperHex == [i \in 1..Len(LowerHex) |-> Canonicalize(LowerHex[i])]
LowerZone == ZoneOf(ZoneLen, LowerHex)
UpperZone == ZoneOf(ZoneLen, UpperHex)
MixedZone == [i \in 1..ZoneLen |-> IF i % 2 = 0 THEN UpperZone[i] ELSE LowerZone[i]]
ValidZones == {LowerZone, MixedZone}
WrongLengthZones ==
  {ZoneOf(ZoneLen + d, LowerHex) : d \in ((0 - MaxPad)..MaxPad) \ {0}}
NonHexZones ==
  { [LowerZone EXCEPT ![1] = "g"], [UpperZone EXCEPT ![ZoneLen] = "G"],
    ACTION_POST_PUBLISHED }
ZoneSegments == ValidZones \cup WrongLengthZones \cup NonHexZones
ActionSegments == {ACTION_POST_PUBLISHED, ACTION_POST_UPDATED, <<"postDeleted">>}

RECURSIVE Extra(_)
Extra(k) == IF k = 0 THEN <<>> ELSE <<(<<"extra">>)>> \o Extra(k - 1)

\* url.pathname.split("/"): the pathname starts with "/", so the first
\* element is the empty string
Pathnames ==
  { << <<>>, <<>> >> }
  \cup { << <<>>, z >> : z \in ZoneSegments }
  \cup { << <<>>, z, a >> : z \in ZoneSegments, a \in ActionSegments }
  \cup { << <<>>, LowerZone, ACTION_POST_UPDATED >> \o Extra(k) : k \in 1..MaxExtra }
  \cup { << <<>>, <<>>, LowerZone, <<>>, ACTION_POST_UPDATED, <<>> >> }

\* the strings a webhook may carry as post.current.url
AbsoluteUrls ==
  { <<"https", ":", "//", "example.com", "/my-post/">>,
    <<"https", ":", "//", "example.com">>,
    <<"HTTPS", ":", "//", "Example.COM", "/my-post/">>,
    <<"https", ":", "//", "example.com", ":", "443", "/blog/../my-post/">>,
    <<"http", ":", "//", "blog.example.org", ":", "8080", "/my-post/", "?x=1">>,
    <<"app", ":", "//", "Example.COM">> }
RelativeUrls == { <<"/my-post/">>, <<"https", ":", "//">> }

Post(current) == JObject([post |-> JObject([current |-> current])])
PostWithUrl(url) == Post(JObject([url |-> url]))
\* the same payload with the other fields Ghost sends
PostWithUrlAndMore(url) ==
  JObject([post |-> JObject([current |-> JObject([url |-> url,
                                                   title |-> JString(<<"My post">>)]),
                             previous |-> JObject([url |-> JString(<<"/old/">>)])])])

Bodies ==
  { InvalidJSON, JNull, JObject([post |-> JNull]), Post(JString(<<"url">>)),
    Post(JObject([title |-> JString(<<"My post">>)])) }
  \cup { PostWithUrl(v) : v \in {JNull, JString(<<>>), JNumber(0), JNumber(42)} }
  \cup { PostWithUrl(JString(u)) : u \in AbsoluteUrls \cup RelativeUrls }
  \cup { PostWithUrlAndMore(JString(u)) :
           u \in { <<"https", ":", "//", "example.com", "/my-post/">> } }

Requests ==
  [method : Methods, contentType : ContentTypes, pathname : Pathnames, body : Bodies]
\* the requests Ghost's webhooks send: POST, with Content-Type application/json
WebhookRequests ==
  {req \in Requests : req.method = "POST" /\ req.contentType = <<"application/json">>}
Envs == [CF_API_TOKEN : { <<>>, <<"token-A">>, <<"token-B">> }]

\* what the provider answers: a response, or the fetch promise rejects
Unsettled == [settled |-> "no", status |-> 0, statusText |-> ""]
Rejected == [settled |-> "rejected", status |-> 0, statusText |-> ""]
ProviderResponse(status, statusText) ==
  [settled |-> "response", status |-> status, statusText |-> statusText]
ProviderOutcomes ==
  { ProviderResponse(200, "OK"), ProviderResponse(204, "No Content"),
    ProviderResponse(403, "Forbidden"),
    ProviderResponse(500, "Internal Server Error"), Rejected }
\* what response.text() settles with: the provider's body, or it rejects
ErrorTexts == { "{\"success\":false}", "" }
TextOutcomes == {[rejected |-> FALSE, text |-> t] : t \in ErrorTexts}
                  \cup {[rejected |-> TRUE, text |-> ""]}

\* ------------------------------------------------------------ state
VARIABLES
  pc,           \* where the invocation of handleRequest stands
  request,      \* the inbound request
  env,          \* the environment handed to fetch
  zoneID,       \* handleRequest's local zoneID
  action,       \* handleRequest's local action
  urlsToPurge,  \* handleRequest's local urlsToPurge
  outbound,     \* the calls this invocation handed to fetch, in order
  provider,     \* what the outbound call settled with
  response,     \* the Response handleRequest returned, Null before
  console       \* what this invocation wrote to the console

vars ==
  <<pc, request, env, zoneID, action, urlsToPurge, outbound, provider,
    response, console, prev>>

\* ------------------------------------------------------------ initial state
NoRequest == [method |-> "", contentType |-> <<>>, pathname |-> <<>>, body |-> Undefined]
NoPrev ==
  [issued |-> FALSE, action |-> <<>>, postURL |-> <<>>, files |-> <<>>,
   zoneID |-> <<>>, apiToken |-> <<>>]

Init ==
  /\ pc = "idle"
  /\ request = NoRequest
  /\ env = [CF_API_TOKEN |-> <<>>]
  /\ zoneID = <<>>
  /\ action = <<>>
  /\ urlsToPurge = <<>>
  /\ outbound = <<>>
  /\ provider = Unsettled
  /\ response = Null
  /\ console = <<>>
  /\ prev = NoPrev

\* ------------------------------------------------------------ handleRequest
\* const [zoneID, action] = url.pathname.split("/").filter(Boolean)
PathZoneID(req) == At(FilterBoolean(req.pathname), 1)
PathAction(req) == At(FilterBoolean(req.pathname), 2)

Validation_TokenFirst(req, e) ==
  IF validateRequest(req) # Null THEN validateRequest(req)
  ELSE IF validateApiToken(e.CF_API_TOKEN) # Null THEN validateApiToken(e.CF_API_TOKEN)
  ELSE IF validateZoneID(PathZoneID(req)) # Null THEN validateZoneID(PathZoneID(req))
  ELSE validateAction(PathAction(req))

\* the synchronous validation of handleRequest, up to the first await: the
\* error Response it returns, or Null when it goes on to parse the body
Validation(req, e) ==
  IF validateRequest(req) # Null THEN validateRequest(req)
  ELSE IF validateZoneID(PathZoneID(req)) # Null THEN validateZoneID(PathZoneID(req))
  ELSE IF validateAction(PathAction(req)) # Null THEN validateAction(PathAction(req))
  ELSE validateApiToken(e.CF_API_TOKEN)

\* fetch(request, env): a new invocation of handleRequest, run up to the
\* await of parseWebhookBody or to the return of a validation error
HandleRequest(requests) ==
  /\ pc = "idle"
  /\ \E req \in requests, e \in Envs :
       LET error == Validation(req, e)
           parsedPath == validateRequest(req) = Null
           tokenChecked ==
             /\ parsedPath
             /\ validateZoneID(PathZoneID(req)) = Null
             /\ validateAction(PathAction(req)) = Null
       IN  /\ request' = req
           /\ env' = e
           /\ zoneID' = IF parsedPath THEN PathZoneID(req) ELSE <<>>
           /\ action' = IF parsedPath THEN PathAction(req) ELSE <<>>
           /\ console' = IF tokenChecked THEN validateApiTokenConsole(e.CF_API_TOKEN)
                         ELSE <<>>
           /\ response' = error
           /\ pc' = IF error = Null THEN "parseWebhookBody" ELSE "returned"
  /\ urlsToPurge' = <<>>
  /\ outbound' = <<>>
  /\ provider' = Unsettled
  /\ UNCHANGED prev

\* handleRequest awaits purgeURL(urlsToPurge, zoneID, env.CF_API_TOKEN)
Dispatch_FireAndForget(urls) ==
  /\ urlsToPurge' = urls
  /\ outbound' = Append(outbound, purgeURL(urls, zoneID, env.CF_API_TOKEN))
  /\ console' = console \o handlePurgeSuccessConsole(zoneID, urls)
  /\ response' = handlePurgeSuccess(zoneID, urls)
  /\ pc' = "returned"

Dispatch(urls) ==
  /\ urlsToPurge' = urls
  /\ outbound' = Append(outbound, purgeURL(urls, zoneID, env.CF_API_TOKEN))
  /\ pc' = "purgeURL"
  /\ UNCHANGED <<console, response>>

\* request.json() settles; handleRequest goes on to the await of the
\* provider's answer inside purgeURL, to a return, or to an uncaught TypeError
ParseWebhookBodySettles ==
  /\ pc = "parseWebhookBody"
  /\ LET body == request.body
         postURL == URLParse(StringOf(PostCurrentUrl(body)))
         rootURL == URLProtocol(postURL) \o <<"//">> \o URLHost(postURL)
         urls == getUrlsToPurge(action, rootURL, URLHref(postURL))
     IN  IF body.t = "invalid"
         THEN /\ console' = Append(console,
                  ConsoleError(<<"Failed to parse webhook body:", "Unexpected token">>))
              /\ response' = Response(<<ERROR_INVALID_WEBHOOK>>, HTTP_BAD_REQUEST)
              /\ pc' = "returned"
              /\ UNCHANGED <<urlsToPurge, outbound>>
         ELSE IF validateWebhookBody(body) # Null
         THEN /\ console' = console \o validateWebhookBodyConsole(body)
              /\ response' = validateWebhookBody(body)
              /\ pc' = "returned"
              /\ UNCHANGED <<urlsToPurge, outbound>>
         ELSE IF ~postURL.ok
         THEN \* new URL(body.post.current.url) throws; nothing catches it
              /\ pc' = "threw"
              /\ UNCHANGED <<console, response, urlsToPurge, outbound>>
         ELSE Dispatch(urls)
  /\ UNCHANGED <<request, env, zoneID, action, provider, prev>>

\* the provider's answer arrives, or the fetch promise rejects
PurgeSettles ==
  /\ pc = "purgeURL"
  /\ \E answer \in ProviderOutcomes :
       /\ provider' = answer
       /\ IF answer.settled = "rejected"
          THEN /\ pc' = "threw"
               /\ UNCHANGED <<console, response>>
          ELSE IF Ok(answer)
          THEN /\ console' = console \o handlePurgeSuccessConsole(zoneID, urlsToPurge)
               /\ response' = handlePurgeSuccess(zoneID, urlsToPurge)
               /\ pc' = "returned"
          ELSE /\ pc' = "handlePurgeFailure"
               /\ UNCHANGED <<console, response>>
  /\ UNCHANGED <<request, env, zoneID, action, urlsToPurge, outbound, prev>>

\* handlePurgeFailure: response.text() settles
ErrorTextSettles ==
  /\ pc = "handlePurgeFailure"
  /\ \E t \in TextOutcomes :
       IF t.rejected
       THEN /\ pc' = "threw"
            /\ UNCHANGED <<console, response>>
       ELSE /\ console' = console
                \o handlePurgeFailureConsole(provider, zoneID, urlsToPurge, t.text)
            /\ response' = handlePurgeFailure(provider, zoneID, urlsToPurge)
            /\ pc' = "returned"
  /\ UNCHANGED <<request, env, zoneID, action, urlsToPurge, outbound, provider, prev>>

\* the invocation is over: everything request-scoped goes out of scope
OutOfScope ==
  /\ pc \in {"returned", "threw"}
  /\ pc' = "idle"
  /\ request' = NoRequest
  /\ env' = [CF_API_TOKEN |-> <<>>]
  /\ zoneID' = <<>>
  /\ action' = <<>>
  /\ urlsToPurge' = <<>>
  /\ outbound' = <<>>
  /\ provider' = Unsettled
  /\ response' = Null
  /\ console' = <<>>

InvocationEnds ==
  /\ OutOfScope
  /\ UNCHANGED prev

\* the same, with the invocation's purge call kept as history
InvocationEndsRecorded ==
  /\ OutOfScope
  /\ prev' = IF outbound = <<>> THEN prev
             ELSE [issued |-> TRUE, action |-> action,
                   postURL |-> StringOf(PostCurrentUrl(request.body)),
                   files |-> outbound[Len(outbound)].files,
                   zoneID |-> zoneID, apiToken |-> env.CF_API_TOKEN]

Settles ==
  \/ ParseWebhookBodySettles
  \/ PurgeSettles
  \/ ErrorTextSettles

Next ==
  \/ HandleRequest(Requests)
  \/ Settles
  \/ InvocationEnds

Spec == Init /\ [][Next]_vars

\* invocation after invocation, with the history of the purge calls
NextRecorded ==
  \/ HandleRequest(WebhookRequests)
  \/ Settles
  \/ InvocationEndsRecorded

SpecRecorded == Init /\ [][NextRecorded]_vars

\* ------------------------------------------------------------ vocabulary of the claims
Returned == pc = "returned"
Terminated == pc \in {"returned", "threw"}
Started == pc # "idle"

\* the first path segment of the inbound request: the first non-empty
\* element of the split pathname, <<>> when there is none
SegmentIndexes == {i \in 1..Len(request.pathname) : request.pathname[i] # <<>>}
NthIndex(n) ==
  IF Cardinality(SegmentIndexes) < n THEN 0
  ELSE CHOOSE i \in SegmentIndexes :
         Cardinality({j \in SegmentIndexes : j <= i}) = n
ZoneSegment == IF NthIndex(1) = 0 THEN <<>> ELSE request.pathname[NthIndex(1)]
ActionSegment == IF NthIndex(2) = 0 THEN <<>> ELSE request.pathname[NthIndex(2)]

HexCharacters ==
  {"0","1","2","3","4","5","6","7","8","9","a","b","c","d","e","f",
   "A","B","C","D","E","F"}
\* exactly 32 characters, each in 0-9, a-f or A-F
IsHex32(z) == Len(z) = 32 /\ \A i \in 1..Len(z) : z[i] \in HexCharacters

\* the nine checks of the validator, on the request and the environment
CheckPasses(k) ==
  CASE k = 1 -> request.method = "POST"
    [] k = 2 -> "application/json" \in Range(request.contentType)
    [] k = 3 -> ZoneSegment # <<>>
    [] k = 4 -> IsHex32(ZoneSegment)
    [] k = 5 -> ActionSegment # <<>>
    [] k = 6 -> ActionSegment \in {<<"postPublished">>, <<"postUpdated">>}
    [] k = 7 -> env.CF_API_TOKEN # <<>>
    [] k = 8 -> request.body.t # "invalid"
    [] k = 9 -> Truthy(PostCurrentUrl(request.body))
FailingChecks == {k \in 1..9 : ~CheckPasses(k)}
FirstFailing == CHOOSE k \in FailingChecks : \A j \in FailingChecks : k <= j
AllChecksPass == FailingChecks = {}

\* the response of each check
ResponseOfCheck(k) ==
  CASE k = 1 -> [status |-> 405, body |-> <<ERROR_METHOD_NOT_ALLOWED>>]
    [] k = 2 -> [status |-> 400, body |-> <<ERROR_INVALID_CONTENT_TYPE>>]
    [] k = 3 -> [status |-> 400, body |-> <<ERROR_MISSING_ZONE_ID>>]
    [] k = 4 -> [status |-> 400, body |-> <<ERROR_INVALID_ZONE_FORMAT>>]
    [] k = 5 -> [status |-> 400, body |-> <<ERROR_MISSING_ACTION>>]
    [] k = 6 -> [status |-> 400, body |-> <<ERROR_INVALID_ACTION>>]
    [] k = 7 -> [status |-> 500, body |-> <<ERROR_MISSING_API_TOKEN>>]
    [] k = 8 -> [status |-> 400, body |-> <<ERROR_INVALID_WEBHOOK>>]
    [] k = 9 -> [status |-> 400, body |-> <<ERROR_INVALID_WEBHOOK>>]

\* ------------------------------------------------------------ C1
\* C1: a request that fails at least one of the nine checks gets the
\* response of the first check it fails, in the order method, content type,
\* zone present, zone format, action present, action valid, credential,
\* body parses, body has post.current.url, whatever the later checks say.
C1_FirstFailingCheckDecides ==
  (Terminated /\ ~AllChecksPass) =>
    (Returned /\ response = ResponseOfCheck(FirstFailing))

\* an invalid zone format wins over a missing credential and a broken body
C1_Witness ==
  /\ Returned
  /\ FailingChecks = {4, 7, 8, 9}
  /\ response = [status |-> 400, body |-> <<ERROR_INVALID_ZONE_FORMAT>>]

\* ------------------------------------------------------------ C2
\* C2: a request whose method is not POST gets status 405, whatever its
\* content type, path, credential and body.
C2_NonPostIs405 ==
  (Started /\ request.method # "POST") => (Returned /\ response.status = 405)

\* a GET that passes every other check
C2_Witness ==
  /\ Returned
  /\ request.method = "GET"
  /\ FailingChecks = {1}
  /\ response.status = 405

\* ------------------------------------------------------------ C3
\* C3: an invocation issues at most one outbound call: exactly one when all
\* nine validation checks pass and none when a check fails, and a call the
\* provider answers with a failure is not followed by a second one.
C3_ExactlyOneCallIffValid ==
  /\ Len(outbound) <= 1
  /\ Terminated => (Len(outbound) = IF AllChecksPass THEN 1 ELSE 0)

\* ------------------------------------------------------------ C4
\* C4 as stated: when the provider answers the purge call with a failure,
\* the response has the provider's status code as its status and the
\* provider's status text as its body.
C4_BodyIsStatusText ==
  (Returned /\ provider.settled = "response" /\ ~Ok(provider)) =>
    response = [status |-> provider.status, body |-> <<provider.statusText>>]

\* C4 as amended: when the provider answers the purge call with a failure,
\* the response returned has the provider's status code as its status and
\* "Cache purge failed: " followed by the provider's status text as its body.
C4_BodyIsPrefixedStatusText ==
  (Returned /\ provider.settled = "response" /\ ~Ok(provider)) =>
    response = [status |-> provider.status,
                body |-> <<"Cache purge failed: ", provider.statusText>>]

\* the provider answers 403 Forbidden
C4_Witness ==
  /\ Returned
  /\ provider = [settled |-> "response", status |-> 403, statusText |-> "Forbidden"]
  /\ response = [status |-> 403, body |-> <<"Cache purge failed: ", "Forbidden">>]

\* ------------------------------------------------------------ C5
\* C5: the response is 200 "OK" exactly when the outbound call was issued and
\* the provider answered it with ok = true, and no response is produced
\* while an issued call has not been answered.
C5_OkIffPurgeSucceeded ==
  /\ (response = [status |-> 200, body |-> <<"OK">>])
       <=> (Len(outbound) = 1 /\ provider.settled = "response"
              /\ provider.status \in 200..299)
  /\ (response # Null /\ outbound # <<>>) => provider.settled = "response"

\* the provider answered 200 and the caller got 200 "OK"
C5_Witness ==
  /\ Returned
  /\ Len(outbound) = 1
  /\ provider = [settled |-> "response", status |-> 200, statusText |-> "OK"]
  /\ response = [status |-> 200, body |-> <<"OK">>]

\* ------------------------------------------------------------ C6
\* the post URL of the payload, as the string it was sent as, and parsed
PostUrlString == StringOf(PostCurrentUrl(request.body))
PostUrlParsed == URLParse(PostUrlString)
\* the scheme and host of the post URL, the path discarded
PostUrlRoot == URLProtocol(PostUrlParsed) \o <<"//">> \o URLHost(PostUrlParsed)
\* the six site-wide resources in order, followed by last
SevenUrls(root, last) ==
  << root \o <<"/sitemap.xml">>, root \o <<"/sitemap-posts.xml">>,
     root \o <<"/sitemap-pages.xml">>, root \o <<"/sitemap-tags.xml">>,
     root \o <<"/sitemap-news/">>, root \o <<"/rss/">>, last >>

\* C6 as stated: the list of URLs to purge is the six site-wide resources of
\* rootURL in order, followed by rootURL for postPublished, or by the
\* original post URL of the payload for postUpdated, in which case rootURL
\* is not in the list.
C6_LastIsOriginalPostUrl ==
  urlsToPurge # <<>> =>
    /\ urlsToPurge =
         SevenUrls(PostUrlRoot,
                   IF ActionSegment = <<"postPublished">> THEN PostUrlRoot
                   ELSE PostUrlString)
    /\ ActionSegment = <<"postUpdated">> => PostUrlRoot \notin Range(urlsToPurge)

\* C6 as amended: the list of URLs to purge is the six site-wide resources
\* of rootURL in order, followed by rootURL for postPublished, or by the href
\* of the parsed post URL (its normalised serialisation) for postUpdated, in
\* which case rootURL is not in the list when the post URL is http or https.
C6_LastIsPostUrlHref ==
  urlsToPurge # <<>> =>
    /\ urlsToPurge =
         SevenUrls(PostUrlRoot,
                   IF ActionSegment = <<"postPublished">> THEN PostUrlRoot
                   ELSE URLHref(PostUrlParsed))
    /\ (ActionSegment = <<"postUpdated">> /\ PostUrlParsed.scheme \in {"http", "https"})
         => PostUrlRoot \notin Range(urlsToPurge)

\* postUpdated for the post URL HTTPS://Example.COM/my-post/
C6_Witness ==
  /\ ActionSegment = <<"postUpdated">>
  /\ PostUrlString = <<"HTTPS", ":", "//", "Example.COM", "/my-post/">>
  /\ urlsToPurge =
       << <<"https", ":", "//", "example.com", "/sitemap.xml">>,
          <<"https", ":", "//", "example.com", "/sitemap-posts.xml">>,
          <<"https", ":", "//", "example.com", "/sitemap-pages.xml">>,
          <<"https", ":", "//", "example.com", "/sitemap-tags.xml">>,
          <<"https", ":", "//", "example.com", "/sitemap-news/">>,
          <<"https", ":", "//", "example.com", "/rss/">>,
          <<"https", ":", "//", "example.com", "/my-post/">> >>

\* ------------------------------------------------------------ C7
\* the URL list a console entry reports: what follows " - URLs: ", up to
\* " - Error: " when there is one
LoggedUrls(entry) ==
  LET text == entry.text
      from == CHOOSE i \in 1..Len(text) : text[i] = " - URLs: "
      errors == {j \in 1..Len(text) : text[j] = " - Error: "}
      to == IF errors = {} THEN Len(text) ELSE (CHOOSE j \in errors : TRUE) - 1
  IN  SubSeq(text, from + 1, to)

\* C7: an outbound call is a POST to the purge endpoint of the zone ID of
\* the first path segment, which has the 32-hex format, with the configured
\* CF_API_TOKEN as bearer credential and the derived URL list as files, the
\* list the console reports once the call is answered.
C7_CallCarriesZoneTokenAndUrls ==
  \A i \in 1..Len(outbound) :
    /\ outbound[i].method = "POST"
    /\ outbound[i].url =
         <<"https://api.cloudflare.com/client/v4/zones/">> \o ZoneSegment
           \o <<"/purge_cache">>
    /\ IsHex32(ZoneSegment)
    /\ outbound[i].authorization = <<"Bearer ">> \o env.CF_API_TOKEN
    /\ env.CF_API_TOKEN # <<>>
    /\ outbound[i].files = urlsToPurge
    /\ Returned =>
         /\ console # <<>>
         /\ LoggedUrls(console[Len(console)]) = Join(outbound[i].files)

\* a call for the zone of //{zone}//postUpdated/ that the provider refused
C7_Witness ==
  /\ Returned
  /\ Len(outbound) = 1
  /\ request.pathname[1] = <<>> /\ request.pathname[2] = <<>>
  /\ env.CF_API_TOKEN = <<"token-B">>
  /\ provider.status = 403
  /\ outbound[1].authorization = <<"Bearer ", "token-B">>

\* ------------------------------------------------------------ C8
ZoneErrors == { <<ERROR_MISSING_ZONE_ID>>, <<ERROR_INVALID_ZONE_FORMAT>> }
\* C8: for a POST with a JSON content type the zone ID check passes exactly
\* when the zone ID is 32 characters each in 0-9, a-f or A-F; every other
\* zone ID, the empty one included, gets status 400.
C8_ZonePassesIffHex32 ==
  (Started /\ CheckPasses(1) /\ CheckPasses(2)) =>
    /\ IsHex32(ZoneSegment) <=> response.body \notin ZoneErrors
    /\ ~IsHex32(ZoneSegment) => (Returned /\ response.status = 400)

\* a zone ID that mixes upper and lower case gets through to the purge
C8_Witness ==
  /\ pc = "purgeURL"
  /\ ZoneSegment = MixedZone
  /\ \E i \in 1..ZoneLen : ZoneSegment[i] \in {"A", "B", "C", "D", "E", "F"}
  /\ zoneID = ZoneSegment

\* ------------------------------------------------------------ C9
\* C9: two invocations that issue a purge call for the same action and the
\* same post URL send the same URL list, whatever their zone IDs,
\* credentials, other body fields and extra path segments, and whatever was
\* invoked before.
C9_SameActionAndPostUrlSameList ==
  (outbound # <<>> /\ prev.issued /\ prev.action = ActionSegment
     /\ prev.postURL = PostUrlString)
    => outbound[1].files = prev.files

\* the same action and post URL again, in another zone, with another
\* credential, an extra path segment and more fields in the body
C9_Witness ==
  /\ outbound # <<>>
  /\ prev.issued
  /\ prev.action = ActionSegment
  /\ prev.postURL = PostUrlString
  /\ prev.zoneID # ZoneSegment
  /\ prev.apiToken # env.CF_API_TOKEN
  /\ Len(FilterBoolean(request.pathname)) > 2
  /\ "previous" \in DOMAIN request.body.f.post.f
  /\ outbound[1].files = prev.files

\* ------------------------------------------------------------ C10
\* C10: every invocation ends by returning a response whose status is 200,
\* 400, 405, 500 or the provider's; a request that passes checks 1 to 8 and
\* whose post.current.url is not an absolute URL string gets a 400 and
\* issues no outbound call.
C10_AlwaysReturnsAResponse ==
  /\ Terminated =>
       /\ Returned
       /\ response.status \in
            {200, 400, 405, 500}
              \cup (IF provider.settled = "response" THEN {provider.status} ELSE {})
  /\ (Terminated /\ (\A k \in 1..8 : CheckPasses(k)) /\ ~PostUrlParsed.ok) =>
       (response.status = 400 /\ outbound = <<>>)

====
